---- MODULE Spec2Model ----
(***************************************************************************)
(* Model of the NFT membership bot (src/main.py): the check_wallet         *)
(* handler (strip, length check, check_nft, save_wallet, final notice),    *)
(* the remote getAssetsByOwner response as check_nft reads it, and the     *)
(* wallets table as the upsert of save_wallet writes it.                   *)
(***************************************************************************)
EXTENDS Integers, Sequences, FiniteSets, TLC

(***************************************************************************)
(* Bounds of the model.                                                    *)
(***************************************************************************)
\* task slots of the dispatcher (handler invocations that may exist at once)
MaxTasks == 2
\* the sqlite_sequence value after which no further update is taken
MaxSeq == 3
\* whitespace characters around an input text
MaxPad == 1
\* how far beyond the upper length limit the input bodies reach
MaxOver == 2
\* restarts of the process in one behaviour
MaxRestarts == 1
\* assets in result.items, and grouping entries in one reply
MaxItems == 2
MaxTags == 2

(***************************************************************************)
(* Program constants.                                                      *)
(***************************************************************************)
\* main.py:120  len(wallet_address) < 32 or len(wallet_address) > 44
MinLen == 32
MaxLen == 44
\* main.py:83  response.status_code == 200
HTTP_OK == 200
\* main.py:76-77  "page": 1, "limit": 1000
PAGE == 1
LIMIT == 1000
\* main.py:14  COLLECTION_ID = os.getenv("COLLECTION_ID")
COLLECTION_ID == "TrinityCollection"

Tasks == 1..MaxTasks

(***************************************************************************)
(* Texts are sequences of characters.  SP and NBSP are whitespace for      *)
(* str.strip(); "a", "b" are not.                                          *)
(***************************************************************************)
SP == " "
NBSP == "nbsp"
Whitespace == {SP, NBSP}

Rep(c, n) == [i \in 1..n |-> c]

\* str.strip() of main.py:118, as two scans from the ends
RECURSIVE lstrip(_)
lstrip(s) ==
    IF s # << >> /\ Head(s) \in Whitespace THEN lstrip(Tail(s)) ELSE s

RECURSIVE rstrip(_)
rstrip(s) ==
    IF s # << >> /\ s[Len(s)] \in Whitespace
    THEN rstrip(SubSeq(s, 1, Len(s) - 1))
    ELSE s

strip(s) == rstrip(lstrip(s))

\* the two comparisons joined by "and": nothing is rejected
too_short_and_long(w) == Len(w) < MinLen /\ Len(w) > MaxLen

\* the lower comparison off by one: a text of exactly MinLen is rejected
too_short_or_long_off_by_one(w) == Len(w) <= MinLen \/ Len(w) > MaxLen

\* main.py:120  the rejection condition on the stripped text
too_short_or_long(w) == Len(w) < MinLen \/ Len(w) > MaxLen

(***************************************************************************)
(* The remote reply to requests.post (main.py:81).  kind "error" is a      *)
(* transport failure (requests raises); otherwise a status and a body.     *)
(* A body is not JSON, or the JSON value null, a JSON array, or an object  *)
(* d; a Python dict is a record and `k in d` is k \in DOMAIN d.            *)
(***************************************************************************)
NotJson == [ty |-> "notjson"]
JNull == [ty |-> "null"]
JList(v) == [ty |-> "list", v |-> v]
JDict(d) == [ty |-> "dict", d |-> d]

TransportError == [kind |-> "error", status |-> 0, data |-> NotJson]
Http(status, data) == [kind |-> "http", status |-> status, data |-> data]

\* main.py:70-79: the JSON-RPC payload for an address
payload(w) ==
    [method |-> "getAssetsByOwner", ownerAddress |-> w, page |-> PAGE,
     limit |-> LIMIT]
NoRequest == [method |-> "none", ownerAddress |-> << >>, page |-> 0, limit |-> 0]

\* a 200 reply whose envelope carries result.items = items
Items(items) ==
    Http(HTTP_OK, JDict([jsonrpc |-> "2.0",
                         result |-> JDict([total |-> Len(items),
                                           items |-> JList(items)])]))

\* group-membership tags: well-formed pairs, and entries lacking a field
TagMatch == [group_key |-> "collection", group_value |-> COLLECTION_ID]
TagOtherValue == [group_key |-> "collection", group_value |-> "trinitycollection"]
TagOtherKey == [group_key |-> "Collection", group_value |-> COLLECTION_ID]
TagNoKey == [group_value |-> COLLECTION_ID]
TagNoValue == [group_key |-> "collection"]
WellFormedTags == {TagMatch, TagOtherValue, TagOtherKey}
AllTags == WellFormedTags \cup {TagNoKey, TagNoValue}

Asset(grouping) == [id |-> "asset", grouping |-> grouping]
AssetNoGrouping == [id |-> "asset"]

\* the assets with j grouping entries over tags
AssetsWith(tags, j) ==
    {Asset(g) : g \in [1..j -> tags]}
        \cup (IF j = 0 THEN {AssetNoGrouping} ELSE {})

\* the lists of n assets with at most k grouping entries in all
RECURSIVE AssetLists(_, _, _)
AssetLists(tags, n, k) ==
    IF n = 0 THEN {<< >>}
    ELSE UNION { { << a >> \o rest : a \in AssetsWith(tags, j),
                                     rest \in AssetLists(tags, n - 1, k - j) } :
                 j \in 0..k }

ItemLists(tags) == UNION {AssetLists(tags, n, MaxTags) : n \in 0..MaxItems}

(***************************************************************************)
(* check_nft (main.py:67-95) as a function of the address and the reply:   *)
(* the value returned, or the exception that leaves it, and the records    *)
(* it logs.                                                                *)
(***************************************************************************)
Returned(v, logs) == [exc |-> "none", ret |-> v, logs |-> logs]
Raised(e, logs) == [exc |-> e, ret |-> FALSE, logs |-> logs]

\* the group_key comparison left out
match_group_any_key(group) ==
    IF "group_value" \notin DOMAIN group THEN "KeyError"
    ELSE IF group.group_value = COLLECTION_ID THEN "True"
    ELSE "False"

\* main.py:92 on one grouping entry: "True", "False" or "KeyError"
match_group(group) ==
    IF "group_key" \notin DOMAIN group THEN "KeyError"
    ELSE IF group.group_key # "collection" THEN "False"
    ELSE IF "group_value" \notin DOMAIN group THEN "KeyError"
    ELSE IF group.group_value = COLLECTION_ID THEN "True"
    ELSE "False"

\* main.py:91-94, the inner loop from entry i on
RECURSIVE scan_grouping(_, _)
scan_grouping(grouping, i) ==
    IF i > Len(grouping) THEN "False"
    ELSE LET m == match_group(grouping[i]) IN
         IF m = "False" THEN scan_grouping(grouping, i + 1) ELSE m

\* main.py:89-94, the outer loop from asset i on
RECURSIVE scan_nfts(_, _)
scan_nfts(nfts, i) ==
    IF i > Len(nfts) THEN "False"
    ELSE LET m == IF "grouping" \in DOMAIN nfts[i]
                  THEN scan_grouping(nfts[i].grouping, 1)
                  ELSE "False" IN
         IF m = "False" THEN scan_nfts(nfts, i + 1) ELSE m

\* the message without the wallet address
LogCount_no_wallet(w, n) ==
    [level |-> "INFO", event |-> "count", wallet |-> << >>, count |-> n]

\* main.py:87
LogCount(w, n) == [level |-> "INFO", event |-> "count", wallet |-> w, count |-> n]
LogFound(w) == [level |-> "INFO", event |-> "found", wallet |-> w, count |-> 0]
LogSaveError(w) == [level |-> "ERROR", event |-> "save", wallet |-> w, count |-> 0]

check_nft(w, resp) ==
    IF resp.kind = "error" THEN Raised("ConnectionError", << >>)
    ELSE IF resp.status # HTTP_OK THEN Returned(FALSE, << >>)
    ELSE IF resp.data.ty = "notjson" THEN Raised("JSONDecodeError", << >>)
    ELSE IF resp.data.ty = "null" THEN Raised("TypeError", << >>)
    ELSE IF resp.data.ty = "list" THEN Returned(FALSE, << >>)
    ELSE IF "result" \notin DOMAIN resp.data.d THEN Returned(FALSE, << >>)
    ELSE LET result == resp.data.d.result IN
    IF result.ty = "null" THEN Raised("TypeError", << >>)
    ELSE IF "items" \notin DOMAIN result.d THEN Returned(FALSE, << >>)
    ELSE LET nfts == result.d.items IN
    IF nfts.ty = "null" THEN Raised("TypeError", << >>)
    ELSE LET m == scan_nfts(nfts.v, 1)
             counted == << LogCount(w, Len(nfts.v)) >> IN
         IF m = "True" THEN Returned(TRUE, Append(counted, LogFound(w)))
         ELSE IF m = "False" THEN Returned(FALSE, counted)
         ELSE Raised(m, counted)

\* replies: a few shapes of the envelope, and item lists over the given tags
EnvelopeReplies ==
    { TransportError,
      Http(500, NotJson),
      Http(HTTP_OK, NotJson),
      Http(HTTP_OK, JNull),
      Http(HTTP_OK, JList(<< >>)),
      Http(HTTP_OK, JDict([jsonrpc |-> "2.0", error |-> "bad request"])),
      Http(HTTP_OK, JDict([jsonrpc |-> "2.0", result |-> JNull])),
      Http(HTTP_OK, JDict([jsonrpc |-> "2.0", result |-> JDict([total |-> 0])])),
      Http(HTTP_OK, JDict([jsonrpc |-> "2.0",
                           result |-> JDict([total |-> 0, items |-> JNull])])),
      Http(500, JDict([jsonrpc |-> "2.0",
                       result |-> JDict([total |-> 1,
                                         items |-> JList(<< Asset(<< TagMatch >>) >>)])])) }

ItemReplies == {Items(items) : items \in ItemLists(AllTags)}

AllReplies == EnvelopeReplies \cup ItemReplies

(***************************************************************************)
(* The wallets table (main.py:32-38): rows in rowid order, and the         *)
(* AUTOINCREMENT counter sqlite_sequence keeps for it.                     *)
(***************************************************************************)
Row(id, w, h) == [id |-> id, wallet_address |-> w, has_nft |-> h]

\* every verified address is stored as a holder
int_always_one(b) == 1

\* int(has_nft) of main.py:52
int(b) == IF b THEN 1 ELSE 0

rows_of(table, w) == {i \in 1..Len(table) : table[i].wallet_address = w}

\* a plain INSERT into a table without the UNIQUE constraint
upsert_insert_only(table, sq, w, h) ==
    [rows |-> Append(table, Row(sq + 1, w, h)), seq |-> sq + 1]

\* ON CONFLICT DO NOTHING: the first value is kept
upsert_do_nothing(table, sq, w, h) ==
    [rows |-> IF rows_of(table, w) = {}
              THEN Append(table, Row(sq + 1, w, h))
              ELSE table,
     seq |-> sq + 1]

\* INSERT OR REPLACE: the conflicting row is deleted and a new one inserted
upsert_replace(table, sq, w, h) ==
    [rows |-> Append(SelectSeq(table, LAMBDA r : r.wallet_address # w),
                     Row(sq + 1, w, h)),
     seq |-> sq + 1]

\* on a conflict an UPDATE without WHERE: every row takes the new value
upsert_update_all(table, sq, w, h) ==
    [rows |-> IF rows_of(table, w) = {}
              THEN Append(table, Row(sq + 1, w, h))
              ELSE [i \in 1..Len(table) |-> [table[i] EXCEPT !.has_nft = h]],
     seq |-> sq + 1]

\* main.py:48-53: INSERT ... ON CONFLICT(wallet_address) DO UPDATE SET has_nft.
\* The statement draws a rowid from the counter whether or not it conflicts.
upsert(table, sq, w, h) ==
    [rows |-> IF rows_of(table, w) = {}
              THEN Append(table, Row(sq + 1, w, h))
              ELSE [i \in 1..Len(table) |->
                       IF table[i].wallet_address = w
                       THEN [table[i] EXCEPT !.has_nft = h]
                       ELSE table[i]],
     seq |-> sq + 1]

\* DROP and CREATE: the table is made anew at every start
init_db_recreate(exists, table, sq) == [rows |-> << >>, seq |-> 0]

\* init_db (main.py:28-40): CREATE TABLE IF NOT EXISTS on a store in which
\* the table exists or not
init_db(exists, table, sq) ==
    IF exists THEN [rows |-> table, seq |-> sq] ELSE [rows |-> << >>, seq |-> 0]

\* what the store does with one save_wallet call
StoreOutcomes == {"ok", "connect_error", "write_error"}

\* save_wallet (main.py:43-57) under a store outcome: the table and counter it
\* leaves, the exception that leaves it, and what it logs
save_wallet(table, sq, w, b, db) ==
    IF db = "connect_error"
    THEN \* sqlite3.connect raises; the handler logs; finally: conn is unbound
         [rows |-> table, seq |-> sq, exc |-> "UnboundLocalError",
          logs |-> << LogSaveError(w) >>]
    ELSE IF db = "write_error"
    THEN \* execute or commit raises sqlite3.Error; logged; conn.close()
         [rows |-> table, seq |-> sq, exc |-> "none",
          logs |-> << LogSaveError(w) >>]
    ELSE LET u == upsert(table, sq, w, int(b)) IN
         [rows |-> u.rows, seq |-> u.seq, exc |-> "none", logs |-> << >>]

(***************************************************************************)
(* Input texts.                                                            *)
(***************************************************************************)
ADDR_A == Rep("a", MaxLen)
ADDR_B == Rep("b", MinLen)

\* a body of n characters; kind "inner" has whitespace inside
Body(kind, n) ==
    IF kind = "inner" /\ n >= 3
    THEN [i \in 1..n |-> IF i = 2 THEN SP ELSE "a"]
    ELSE Rep(IF kind = "b" THEN "b" ELSE "a", n)

AllTexts ==
    { Rep(w, l) \o Body(k, n) \o Rep(w, r) :
        w \in Whitespace, l \in 0..MaxPad, r \in 0..MaxPad,
        k \in {"a", "b", "inner"}, n \in 0..(MaxLen + MaxOver) }

Texts ==
    { ADDR_A, << SP >> \o ADDR_A \o << NBSP >>, ADDR_B,
      Rep("a", MinLen - 1) \o << SP >>, Rep("a", MaxLen + 1),
      << "s", "h", "o", "r", "t" >> }

Replies ==
    { TransportError,
      Http(500, NotJson),
      Http(HTTP_OK, NotJson),
      Http(HTTP_OK, JDict([jsonrpc |-> "2.0", error |-> "bad request"])),
      Items(<< >>),
      Items(<< Asset(<< TagMatch >>) >>),
      Items(<< Asset(<< TagNoValue >>) >>) }

(***************************************************************************)
(* State.                                                                  *)
(***************************************************************************)
VARIABLES
    ledger,          \* the rows of wallets
    seq,             \* sqlite_sequence for wallets
    pc,              \* per slot: where its check_wallet invocation stands
    text,            \* update.message.text of the invocation
    wallet_address,  \* main.py:118
    reply,           \* what requests.post came back with
    has_nft,         \* main.py:126
    store,           \* what the store did with the save_wallet call
    exc,             \* the exception that left the handler, or "none"
    trace,           \* notices sent and calls made by the invocation, in order
    logs,            \* records the invocation logged
    request,         \* the payload of the invocation's requests.post
    commits,         \* history: the (address, value) of each committed upsert
    reports,         \* history: per address, the decision last reported
    persist_failed,  \* history: some save_wallet call did not commit
    restarts         \* history: how often the process was started again

vars == << ledger, seq, pc, text, wallet_address, reply, has_nft, store, exc,
           trace, logs, request, commits, reports, persist_failed, restarts >>

history == << commits, reports, persist_failed, restarts >>

Terminal == {"rejected", "reported", "failed"}

NoReply == [kind |-> "none", status |-> 0, data |-> NotJson]

Fresh(t, state, txt) ==
    /\ pc' = [pc EXCEPT ![t] = state]
    /\ text' = [text EXCEPT ![t] = txt]
    /\ wallet_address' = [wallet_address EXCEPT ![t] = << >>]
    /\ reply' = [reply EXCEPT ![t] = NoReply]
    /\ has_nft' = [has_nft EXCEPT ![t] = FALSE]
    /\ store' = [store EXCEPT ![t] = "none"]
    /\ exc' = [exc EXCEPT ![t] = "none"]
    /\ trace' = [trace EXCEPT ![t] = << >>]
    /\ logs' = [logs EXCEPT ![t] = << >>]
    /\ request' = [request EXCEPT ![t] = NoRequest]

Idle ==
    /\ pc = [t \in Tasks |-> "idle"]
    /\ text = [t \in Tasks |-> << >>]
    /\ wallet_address = [t \in Tasks |-> << >>]
    /\ reply = [t \in Tasks |-> NoReply]
    /\ has_nft = [t \in Tasks |-> FALSE]
    /\ store = [t \in Tasks |-> "none"]
    /\ exc = [t \in Tasks |-> "none"]
    /\ trace = [t \in Tasks |-> << >>]
    /\ logs = [t \in Tasks |-> << >>]
    /\ request = [t \in Tasks |-> NoRequest]

\* main.py:137 on a new store: init_db leaves an empty table
Init ==
    /\ ledger = init_db(FALSE, << >>, 0).rows
    /\ seq = init_db(FALSE, << >>, 0).seq
    /\ commits = << >>
    /\ reports = {}
    /\ persist_failed = FALSE
    /\ restarts = 0
    /\ Idle

\* main.py:138,149: check_wallet is a blocking handler of an application that
\* processes one update at a time, so an update is handed over only when the
\* invocation before it has returned
dispatcher_free == \A u \in Tasks : pc[u] = "idle"

Receive(t, txt) ==
    /\ dispatcher_free
    /\ seq < MaxSeq
    /\ Fresh(t, "validate", txt)
    /\ UNCHANGED << ledger, seq, history >>

\* the invocation has ended (by return or by an exception the application
\* logs); its frame is gone and the dispatcher goes on
Return(t) ==
    /\ pc[t] \in Terminal
    /\ Fresh(t, "idle", << >>)
    /\ UNCHANGED << ledger, seq, history >>

\* main.py:135-152: the process is stopped between two updates and started
\* again; main runs init_db on the store the earlier run left
Restart ==
    /\ \A t \in Tasks : pc[t] \in {"idle"} \cup Terminal
    /\ restarts < MaxRestarts
    /\ restarts' = restarts + 1
    /\ ledger' = init_db(TRUE, ledger, seq).rows
    /\ seq' = init_db(TRUE, ledger, seq).seq
    /\ pc' = [t \in Tasks |-> "idle"]
    /\ text' = [t \in Tasks |-> << >>]
    /\ wallet_address' = [t \in Tasks |-> << >>]
    /\ reply' = [t \in Tasks |-> NoReply]
    /\ has_nft' = [t \in Tasks |-> FALSE]
    /\ store' = [t \in Tasks |-> "none"]
    /\ exc' = [t \in Tasks |-> "none"]
    /\ trace' = [t \in Tasks |-> << >>]
    /\ logs' = [t \in Tasks |-> << >>]
    /\ request' = [t \in Tasks |-> NoRequest]
    /\ UNCHANGED << commits, reports, persist_failed >>

\* the text is used as received, without strip()
Validate_no_strip(t) ==
    /\ pc[t] = "validate"
    /\ LET w == text[t] IN
       /\ wallet_address' = [wallet_address EXCEPT ![t] = w]
       /\ IF too_short_or_long(w)
          THEN /\ trace' = [trace EXCEPT ![t] = Append(@, "rejection")]
               /\ pc' = [pc EXCEPT ![t] = "rejected"]
          ELSE /\ trace' = [trace EXCEPT ![t] = Append(@, "progress")]
               /\ pc' = [pc EXCEPT ![t] = "query"]
    /\ UNCHANGED << ledger, seq, history, text, reply, has_nft, store, exc,
                    logs, request >>

\* main.py:118-124
Validate(t) ==
    /\ pc[t] = "validate"
    /\ LET w == strip(text[t]) IN
       /\ wallet_address' = [wallet_address EXCEPT ![t] = w]
       /\ IF too_short_or_long(w)
          THEN /\ trace' = [trace EXCEPT ![t] = Append(@, "rejection")]
               /\ pc' = [pc EXCEPT ![t] = "rejected"]
          ELSE /\ trace' = [trace EXCEPT ![t] = Append(@, "progress")]
               /\ pc' = [pc EXCEPT ![t] = "query"]
    /\ UNCHANGED << ledger, seq, history, text, reply, has_nft, store, exc,
                    logs, request >>

\* the request is sent again after the first attempt
Post_retry(t) ==
    /\ pc[t] = "query"
    /\ request' = [request EXCEPT ![t] = payload(wallet_address[t])]
    /\ trace' = [trace EXCEPT ![t] = @ \o << "post", "post" >>]
    /\ pc' = [pc EXCEPT ![t] = "waiting"]
    /\ UNCHANGED << ledger, seq, history, text, wallet_address, reply, has_nft,
                    store, exc, logs >>

\* main.py:126, 69-81: the request goes out
Post(t) ==
    /\ pc[t] = "query"
    /\ request' = [request EXCEPT ![t] = payload(wallet_address[t])]
    /\ trace' = [trace EXCEPT ![t] = Append(@, "post")]
    /\ pc' = [pc EXCEPT ![t] = "waiting"]
    /\ UNCHANGED << ledger, seq, history, text, wallet_address, reply, has_nft,
                    store, exc, logs >>

\* main.py:81-95, 126: the reply r arrives and check_nft runs to its end
Respond(t, r) ==
    /\ pc[t] = "waiting"
    /\ LET out == check_nft(wallet_address[t], r) IN
       /\ reply' = [reply EXCEPT ![t] = r]
       /\ logs' = [logs EXCEPT ![t] = @ \o out.logs]
       /\ exc' = [exc EXCEPT ![t] = out.exc]
       /\ has_nft' = [has_nft EXCEPT ![t] = out.ret]
       /\ pc' = [pc EXCEPT ![t] = IF out.exc = "none" THEN "persist" ELSE "failed"]
    /\ UNCHANGED << ledger, seq, history, text, wallet_address, store, trace,
                    request >>

\* main.py:127, 43-57
Persist(t, db) ==
    /\ pc[t] = "persist"
    /\ LET out == save_wallet(ledger, seq, wallet_address[t], has_nft[t], db) IN
       /\ ledger' = out.rows
       /\ seq' = out.seq
       /\ commits' = IF db = "ok"
                     THEN Append(commits, << wallet_address[t], int(has_nft[t]) >>)
                     ELSE commits
       /\ persist_failed' = (persist_failed \/ db # "ok")
       /\ store' = [store EXCEPT ![t] = db]
       /\ logs' = [logs EXCEPT ![t] = @ \o out.logs]
       /\ exc' = [exc EXCEPT ![t] = out.exc]
       /\ trace' = [trace EXCEPT ![t] = Append(@, "save")]
       /\ pc' = [pc EXCEPT ![t] = IF out.exc = "none" THEN "report" ELSE "failed"]
    /\ UNCHANGED << text, wallet_address, reply, has_nft, request, reports,
                    restarts >>

\* the two branches of the final notice exchanged
Report_swapped(t) ==
    /\ pc[t] = "report"
    /\ trace' = [trace EXCEPT ![t] =
                    Append(@, IF has_nft[t] THEN "absent" ELSE "confirmed")]
    /\ pc' = [pc EXCEPT ![t] = "reported"]
    /\ reports' = {p \in reports : p[1] # wallet_address[t]}
                      \cup {<< wallet_address[t], has_nft[t] >>}
    /\ UNCHANGED << ledger, seq, commits, persist_failed, restarts, text,
                    wallet_address, reply, has_nft, store, exc, logs, request >>

\* main.py:129-132
Report(t) ==
    /\ pc[t] = "report"
    /\ trace' = [trace EXCEPT ![t] =
                    Append(@, IF has_nft[t] THEN "confirmed" ELSE "absent")]
    /\ pc' = [pc EXCEPT ![t] = "reported"]
    /\ reports' = {p \in reports : p[1] # wallet_address[t]}
                      \cup {<< wallet_address[t], has_nft[t] >>}
    /\ UNCHANGED << ledger, seq, commits, persist_failed, restarts, text,
                    wallet_address, reply, has_nft, store, exc, logs, request >>

Next ==
    \/ \E t \in Tasks, txt \in Texts : Receive(t, txt)
    \/ \E t \in Tasks : Validate(t)
    \/ \E t \in Tasks : Post(t)
    \/ \E t \in Tasks : pc[t] = "waiting" /\ \E r \in Replies : Respond(t, r)
    \/ \E t \in Tasks, db \in StoreOutcomes : Persist(t, db)
    \/ \E t \in Tasks : Report(t)
    \/ \E t \in Tasks : Return(t)
    \/ Restart

Spec == Init /\ [][Next]_vars

(***************************************************************************)
(* One invocation on a drawn input: the update is in the handler's hands,  *)
(* over a store that is new or holds a row from an earlier run.            *)
(***************************************************************************)
Handling(txt) ==
    /\ pc = [t \in Tasks |-> IF t = 1 THEN "validate" ELSE "idle"]
    /\ text = [t \in Tasks |-> IF t = 1 THEN txt ELSE << >>]
    /\ wallet_address = [t \in Tasks |-> << >>]
    /\ reply = [t \in Tasks |-> NoReply]
    /\ has_nft = [t \in Tasks |-> FALSE]
    /\ store = [t \in Tasks |-> "none"]
    /\ exc = [t \in Tasks |-> "none"]
    /\ trace = [t \in Tasks |-> << >>]
    /\ logs = [t \in Tasks |-> << >>]
    /\ request = [t \in Tasks |-> NoRequest]

EarlierStore ==
    /\ persist_failed = FALSE
    /\ restarts = 0
    /\ \/ /\ ledger = << >>
          /\ seq = 0
          /\ commits = << >>
          /\ reports = {}
       \/ /\ ledger = upsert(<< >>, 0, ADDR_A, 1).rows
          /\ seq = 1
          /\ commits = << << ADDR_A, 1 >> >>
          /\ reports = {<< ADDR_A, TRUE >>}

\* every input text, a few replies
InitValidate == EarlierStore /\ \E txt \in AllTexts : Handling(txt)

NextValidate ==
    \/ \E t \in Tasks : Validate(t)
    \/ \E t \in Tasks : Post(t)
    \/ \E t \in Tasks : pc[t] = "waiting" /\ \E r \in Replies : Respond(t, r)
    \/ \E t \in Tasks, db \in StoreOutcomes : Persist(t, db)
    \/ \E t \in Tasks : Report(t)
    \/ \E t \in Tasks : Return(t)

SpecValidate == InitValidate /\ [][NextValidate]_vars

\* one address, every reply
InitDecide == EarlierStore /\ Handling(ADDR_A)

NextDecide ==
    \/ \E t \in Tasks : Validate(t)
    \/ \E t \in Tasks : Post(t)
    \/ \E t \in Tasks : pc[t] = "waiting" /\ \E r \in AllReplies : Respond(t, r)
    \/ \E t \in Tasks, db \in StoreOutcomes : Persist(t, db)
    \/ \E t \in Tasks : Report(t)
    \/ \E t \in Tasks : Return(t)

SpecDecide == InitDecide /\ [][NextDecide]_vars

(***************************************************************************)
(* Vocabulary of the properties.                                           *)
(***************************************************************************)
Range(s) == {s[i] : i \in 1..Len(s)}
started(t) == pc[t] \notin {"idle", "validate"}
replied(t) == reply[t].kind # "none"
\* the exception left check_nft (not save_wallet)
query_raised(t) == pc[t] = "failed" /\ store[t] = "none"
OutOfRange(n) == n < MinLen \/ n > MaxLen

\* the reply is a 200 whose JSON object carries a list at result.items
EnvelopeOk(r) ==
    /\ r.kind = "http"
    /\ r.status = HTTP_OK
    /\ r.data.ty = "dict"
    /\ "result" \in DOMAIN r.data.d
    /\ r.data.d.result.ty = "dict"
    /\ "items" \in DOMAIN r.data.d.result.d
    /\ r.data.d.result.d.items.ty = "list"
ItemsOf(r) == r.data.d.result.d.items.v
TagsOf(items) ==
    UNION { Range(items[i].grouping) :
            i \in {k \in 1..Len(items) : "grouping" \in DOMAIN items[k]} }
IsPair(g) == {"group_key", "group_value"} \subseteq DOMAIN g
Matches(g) ==
    IsPair(g) /\ g.group_key = "collection" /\ g.group_value = COLLECTION_ID

(***************************************************************************)
(* C1: check_nft never raises: on a transport failure, a non-success       *)
(* status, a body without result or result.items, or a body that is not    *)
(* JSON or is ill-shaped, it returns False.                                *)
(* Fails: requests.post and response.json() are not guarded, and neither   *)
(* are the lookups on a null body, result or items.                        *)
(***************************************************************************)
C1_NeverRaises ==
    \A t \in Tasks :
        replied(t) /\ ~EnvelopeOk(reply[t]) =>
            ~query_raised(t) /\ has_nft[t] = FALSE

(***************************************************************************)
(* C2: a persistence failure is swallowed: when the store cannot be opened *)
(* or the write raises, save_wallet returns normally and check_wallet      *)
(* still sends the notice that matches the decision.                       *)
(* Fails when sqlite3.connect raises: the finally clause closes a          *)
(* connection that was never bound.                                        *)
(***************************************************************************)
C2_PersistenceSwallowed ==
    \A t \in Tasks :
        store[t] \in {"connect_error", "write_error"} =>
            /\ pc[t] # "failed"
            /\ pc[t] = "reported" =>
                   trace[t][Len(trace[t])] =
                       (IF has_nft[t] THEN "confirmed" ELSE "absent")

(***************************************************************************)
(* C3: every verification request ends in exactly one of an explicit       *)
(* rejection notice or a reported boolean; none ends in a third state in   *)
(* which neither was sent.                                                 *)
(* Fails: an exception out of check_nft or save_wallet ends the handler    *)
(* after the in-progress notice, with no final notice.                     *)
(***************************************************************************)
Rejection(t) == "rejection" \in Range(trace[t])
Reported(t) == Range(trace[t]) \cap {"confirmed", "absent"} # {}

C3_RejectedOrReported ==
    \A t \in Tasks :
        pc[t] \in Terminal => (Rejection(t) /\ ~Reported(t)) \/ (Reported(t) /\ ~Rejection(t))

(***************************************************************************)
(* C4 as stated: every text of length < 32 or > 44 is rejected.            *)
(* Fails: the length is taken after strip(), so a 44-character address     *)
(* with whitespace around it is longer than 44 and accepted.               *)
(***************************************************************************)
C4_RawLengthRejected ==
    \A t \in Tasks :
        started(t) /\ OutOfRange(Len(text[t])) =>
            pc[t] = "rejected" /\ trace[t] = << "rejection" >>

(***************************************************************************)
(* C4, amended: every text whose length after stripping surrounding        *)
(* whitespace is < 32 or > 44 is rejected: the rejection notice is the     *)
(* only thing sent, no network call is made, and the step that handles it  *)
(* leaves the wallets table and its counter as they were.                  *)
(***************************************************************************)
C4_Rejected ==
    \A t \in Tasks :
        started(t) /\ OutOfRange(Len(strip(text[t]))) =>
            pc[t] = "rejected" /\ trace[t] = << "rejection" >>

C4_Frame ==
    \A t \in Tasks :
        pc[t] = "validate" /\ OutOfRange(Len(strip(text[t]))) =>
            ledger' = ledger /\ seq' = seq /\ commits' = commits

C4_StrippedLengthRejected == []C4_Rejected /\ [][C4_Frame]_vars

\* a text too long even when stripped, and one with whitespace around it
C4_Witness ==
    \E t \in Tasks :
        /\ pc[t] = "rejected"
        /\ Len(text[t]) > Len(wallet_address[t])
        /\ Len(wallet_address[t]) > MaxLen
        /\ ledger # << >>

(***************************************************************************)
(* C5 as stated: every text of length in [32, 44] is accepted, whatever    *)
(* its characters, whitespace included.                                    *)
(* Fails: 31 characters followed by a space have length 32 and are         *)
(* rejected, since the space is stripped first.                            *)
(***************************************************************************)
C5_RawLengthAccepted ==
    \A t \in Tasks :
        started(t) /\ ~OutOfRange(Len(text[t])) => pc[t] # "rejected"

(***************************************************************************)
(* C5, amended: every text whose length after stripping surrounding        *)
(* whitespace is in [32, 44] is accepted, whatever its characters          *)
(* (whitespace inside it included): the in-progress notice is sent and the *)
(* request goes on to the remote query.                                    *)
(***************************************************************************)
C5_StrippedLengthAccepted ==
    \A t \in Tasks :
        started(t) /\ ~OutOfRange(Len(strip(text[t]))) =>
            /\ pc[t] # "rejected"
            /\ trace[t][1] = "progress"
            /\ pc[t] # "query" => Len(trace[t]) >= 2 /\ trace[t][2] = "post"

\* an accepted text of the least length with whitespace inside it
C5_Witness ==
    \E t \in Tasks :
        /\ pc[t] = "waiting"
        /\ Len(wallet_address[t]) = MinLen
        /\ SP \in Range(wallet_address[t])

(***************************************************************************)
(* C6: the decision is true if and only if some asset of result.items      *)
(* carries a grouping entry with group_key exactly "collection" and        *)
(* group_value exactly the configured collection id; it is false for an    *)
(* empty list, for assets without grouping and for lists with no such      *)
(* entry.  Stated for every list of asset descriptors whose grouping       *)
(* entries are (group_key, group_value) pairs, on which check_nft always   *)
(* returns; on any other list, whenever check_nft returns, its value is    *)
(* still the one stated.                                                   *)
(***************************************************************************)
C6_DecisionIffMatch ==
    \A t \in Tasks :
        replied(t) /\ EnvelopeOk(reply[t]) =>
            LET tags == TagsOf(ItemsOf(reply[t])) IN
            /\ (\A g \in tags : IsPair(g)) => ~query_raised(t)
            /\ ~query_raised(t) => (has_nft[t] <=> \E g \in tags : Matches(g))

\* a match found in the second asset, after an asset whose key differs in case
C6_Witness ==
    \E t \in Tasks :
        /\ pc[t] = "persist"
        /\ has_nft[t]
        /\ EnvelopeOk(reply[t])
        /\ Len(ItemsOf(reply[t])) = 2
        /\ ItemsOf(reply[t])[1] = Asset(<< TagOtherKey >>)

(***************************************************************************)
(* C7: in every reachable state the wallets table holds at most one row    *)
(* per wallet address: there are as many rows as distinct addresses        *)
(* committed, so a repeated verification updates has_nft in place.         *)
(***************************************************************************)
Committed == {commits[i][1] : i \in 1..Len(commits)}

C7_OneRowPerAddress ==
    /\ \A i, j \in 1..Len(ledger) :
           ledger[i].wallet_address = ledger[j].wallet_address => i = j
    /\ Len(ledger) = Cardinality(Committed)

\* an address verified twice with different results, and one row
C7_Witness ==
    /\ Len(commits) = 2
    /\ commits[1][1] = commits[2][1]
    /\ commits[1][2] # commits[2][2]
    /\ Len(ledger) = 1

(***************************************************************************)
(* C8: last write wins: for every address with a committed upsert the      *)
(* table holds exactly one row, and its has_nft is the value of the        *)
(* upsert committed last for that address.                                 *)
(***************************************************************************)
LastCommit(a) ==
    LET n == CHOOSE i \in 1..Len(commits) :
                 /\ commits[i][1] = a
                 /\ \A j \in (i + 1)..Len(commits) : commits[j][1] # a
    IN commits[n][2]

C8_LastWriteWins ==
    \A a \in Committed :
        /\ Cardinality(rows_of(ledger, a)) = 1
        /\ \A i \in rows_of(ledger, a) : ledger[i].has_nft = LastCommit(a)

\* upsert(A, true), another address, then upsert(A, false): A holds 0
C8_Witness ==
    /\ Len(commits) = 3
    /\ commits[1] = << ADDR_A, 1 >>
    /\ commits[2][1] = ADDR_B
    /\ commits[3] = << ADDR_A, 0 >>
    /\ \E i \in 1..Len(ledger) : ledger[i] = Row(1, ADDR_A, 0)

(***************************************************************************)
(* C9: the upsert is idempotent: a save_wallet(A, v) that commits right    *)
(* after a committed save_wallet(A, v) leaves every row of the table as    *)
(* the first left it, with exactly one row for A, holding v.               *)
(***************************************************************************)
C9_Step ==
    \A t \in Tasks :
        /\ pc[t] = "persist"
        /\ Len(commits') = Len(commits) + 1
        /\ commits # << >>
        /\ commits[Len(commits)] = << wallet_address[t], int(has_nft[t]) >>
        => /\ ledger' = ledger
           /\ Cardinality(rows_of(ledger', wallet_address[t])) = 1
           /\ \A i \in rows_of(ledger', wallet_address[t]) :
                  ledger'[i].has_nft = int(has_nft[t])

C9_Idempotent == [][C9_Step]_vars

\* the same upsert committed twice in a row, after one with the other value
C9_Witness ==
    /\ Len(commits) = 3
    /\ commits[1][1] = commits[2][1]
    /\ commits[1][2] # commits[2][2]
    /\ commits[2] = commits[3]

(***************************************************************************)
(* C10: for an accepted address, a non-200 status or a body without        *)
(* result.items is treated as zero assets: the decision is false, the row  *)
(* (address, 0) is written over any earlier value, the membership-absent   *)
(* notice is sent and no exception leaves check_wallet.                    *)
(* Fails: a 200 body that is not JSON (or is null) raises in check_nft,    *)
(* and a store that cannot be opened raises in save_wallet (C1, C2).       *)
(***************************************************************************)
C10_DegradedIsAbsent ==
    \A t \in Tasks :
        replied(t) /\ reply[t].kind = "http" /\ ~EnvelopeOk(reply[t]) =>
            /\ pc[t] # "failed"
            /\ has_nft[t] = FALSE
            /\ pc[t] = "reported" =>
                   /\ trace[t] = << "progress", "post", "save", "absent" >>
                   /\ \E i \in 1..Len(ledger) :
                          /\ ledger[i].wallet_address = wallet_address[t]
                          /\ ledger[i].has_nft = 0

(***************************************************************************)
(* C11: each accepted verification request performs exactly one network    *)
(* request, for page 1 with limit 1000 - never none, never a second        *)
(* attempt or page - and each rejected request performs none.              *)
(***************************************************************************)
Count(tr, e) == Cardinality({i \in 1..Len(tr) : tr[i] = e})

C11_OneRequest ==
    \A t \in Tasks :
        /\ Count(trace[t], "post") <= 1
        /\ pc[t] \in {"waiting", "persist", "report", "reported", "failed"} =>
               /\ Count(trace[t], "post") = 1
               /\ request[t] = [method |-> "getAssetsByOwner",
                                ownerAddress |-> wallet_address[t],
                                page |-> 1, limit |-> 1000]
        /\ pc[t] \in {"idle", "validate", "query", "rejected"} =>
               /\ Count(trace[t], "post") = 0
               /\ request[t] = NoRequest

\* the one request failed at transport level and was not sent again
C11_Witness ==
    \E t \in Tasks :
        /\ pc[t] = "failed"
        /\ reply[t] = TransportError
        /\ Count(trace[t], "post") = 1

(***************************************************************************)
(* C12: within one accepted request the stages run in the order validate,  *)
(* query, decide, persist, report, each at most once and never back: the   *)
(* network call precedes the upsert, the upsert precedes the final notice, *)
(* and the boolean given to the upsert is the boolean reported.            *)
(***************************************************************************)
IsPrefix(a, b) == Len(a) <= Len(b) /\ a = SubSeq(b, 1, Len(a))

Stage(p) ==
    CASE p = "idle" -> 0
      [] p = "validate" -> 1
      [] p = "query" -> 2
      [] p = "waiting" -> 3
      [] p = "persist" -> 4
      [] p = "report" -> 5
      [] OTHER -> 6

C12_Order ==
    \A t \in Tasks :
        started(t) /\ pc[t] # "rejected" =>
            /\ \E final \in {"confirmed", "absent"} :
                   IsPrefix(trace[t], << "progress", "post", "save", final >>)
            /\ pc[t] \in {"report", "reported"} /\ store[t] = "ok" =>
                   /\ commits # << >>
                   /\ commits[Len(commits)] =
                          << wallet_address[t], IF has_nft[t] THEN 1 ELSE 0 >>
            /\ pc[t] = "reported" /\ store[t] = "ok" =>
                   trace[t][4] = (IF commits[Len(commits)][2] = 1
                                  THEN "confirmed" ELSE "absent")

C12_Forward ==
    \A t \in Tasks :
        pc'[t] # pc[t] =>
            Stage(pc'[t]) > Stage(pc[t]) \/ Stage(pc'[t]) = 0 \/ Stage(pc[t]) = 0

C12_StagesInOrder == []C12_Order /\ [][C12_Forward]_vars

\* a request that went through all five stages and reported true
C12_Witness ==
    \E t \in Tasks :
        /\ pc[t] = "reported"
        /\ store[t] = "ok"
        /\ trace[t] = << "progress", "post", "save", "confirmed" >>

(***************************************************************************)
(* C13: several verification requests can be in flight at once: while one  *)
(* request is suspended on its network call, a second request can start,   *)
(* and neither blocks the other.                                           *)
(* Fails: check_wallet is registered as a blocking handler of an           *)
(* application that takes one update at a time, and requests.post does not *)
(* yield: no update is taken while an invocation is under way.             *)
(***************************************************************************)
C13_SecondCanStart ==
    \A t \in Tasks :
        pc[t] = "waiting" /\ seq < MaxSeq =>
            ENABLED (\E u \in Tasks \ {t}, txt \in Texts : Receive(u, txt))

(***************************************************************************)
(* C14: the ledger holds the last-known membership boolean: whenever no    *)
(* verification is under way and no persistence failure has occurred, the  *)
(* has_nft stored for each address equals the decision most recently       *)
(* reported to the user for that address.                                  *)
(***************************************************************************)
Quiescent == \A t \in Tasks : pc[t] \in {"idle"} \cup Terminal

Saving(a) ==
    \E t \in Tasks :
        pc[t] = "persist" /\ pc'[t] # "persist" /\ wallet_address[t] = a

C15_Step ==
    /\ Len(ledger') \in {Len(ledger), Len(ledger) + 1}
    /\ \A i \in 1..Len(ledger) :
           /\ ledger'[i].id = ledger[i].id
           /\ ledger'[i].wallet_address = ledger[i].wallet_address
           /\ ledger'[i].has_nft # ledger[i].has_nft =>
                  Saving(ledger[i].wallet_address)
    /\ Len(ledger') = Len(ledger) + 1 =>
           /\ Saving(ledger'[Len(ledger')].wallet_address)
           /\ rows_of(ledger, ledger'[Len(ledger')].wallet_address) = {}

C15_UpsertFrame == [][C15_Step]_vars

\* two addresses stored with value 1, then the first saved again with 0:
\* its row keeps id 1, the other row is as it was written
C15_Witness ==
    /\ Len(commits) = 3
    /\ commits[1][2] = 1
    /\ commits[2][2] = 1
    /\ commits[3] = << commits[1][1], 0 >>
    /\ Len(ledger) = 2
    /\ ledger[1] = Row(1, commits[1][1], 0)
    /\ ledger[2] = Row(2, commits[2][1], 1)

(***************************************************************************)
(* C16: every invocation of check_nft emits a log record with the          *)
(* requesting address and the count of returned assets, a count of 0 when  *)
(* the query degraded to the empty result.                                 *)
(* Fails as stated: the only count record is written inside the branch for *)
(* an HTTP 200 reply that carries result.items.                            *)
(***************************************************************************)
CountRecords(t) == {i \in 1..Len(logs[t]) : logs[t][i].event = "count"}

PermsOf(s) == {[i \in 1..Len(s) |-> s[f[i]]] : f \in Permutations(1..Len(s))}

TagsRearranged(items) ==
    UNION { {[items EXCEPT ![k].grouping = g] : g \in PermsOf(items[k].grouping)} :
            k \in {j \in 1..Len(items) : "grouping" \in DOMAIN items[j]} }

Rearranged(items) == PermsOf(items) \cup TagsRearranged(items)

C17_OrderIndependent ==
    \A t \in Tasks :
        replied(t) /\ EnvelopeOk(reply[t]) =>
            \A l \in Rearranged(ItemsOf(reply[t])) :
                LET out == check_nft(wallet_address[t], Items(l)) IN
                /\ out.exc = (IF query_raised(t) THEN exc[t] ELSE "none")
                /\ out.exc = "none" => out.ret = has_nft[t]

(***************************************************************************)
(* C18: outbound messages per address text: a rejected request sends       *)
(* exactly one message, the rejection notice; an accepted request sends    *)
(* the in-progress notice before the network call and then exactly one     *)
(* final notice after the ledger write, membership-confirmed if the        *)
(* decision is true and membership-absent otherwise.                       *)
(* Fails: an invocation in which check_nft or save_wallet raises ends      *)
(* after the in-progress notice, with no final notice (C1, C2).            *)
(***************************************************************************)
C18_MessageProtocol ==
    \A t \in Tasks :
        pc[t] \in Terminal =>
            trace[t] = (IF too_short_or_long(wallet_address[t])
                        THEN << "rejection" >>
                        ELSE << "progress", "post", "save",
                                IF has_nft[t] THEN "confirmed" ELSE "absent" >>)

(***************************************************************************)
(* C19: the text is stripped once, before validation, and the stripped     *)
(* text is the one validated, sent as ownerAddress and used as the ledger  *)
(* key; so inputs that differ only in surrounding whitespace are stored    *)
(* under one and the same row.                                             *)
(***************************************************************************)
C19_StrippedEverywhere ==
    /\ \A t \in Tasks :
           started(t) =>
               /\ wallet_address[t] = strip(text[t])
               /\ pc[t] = "rejected" <=>
                      (Len(strip(text[t])) < 32 \/ Len(strip(text[t])) > 44)
               /\ request[t] # NoRequest =>
                      request[t].ownerAddress = strip(text[t])
               /\ store[t] = "ok" =>
                      /\ commits[Len(commits)][1] = strip(text[t])
                      /\ Cardinality(rows_of(ledger, strip(text[t]))) = 1
    /\ \A i \in 1..Len(ledger) :
           strip(ledger[i].wallet_address) = ledger[i].wallet_address

\* an address saved twice, the second time from a text with whitespace
\* around it: one row
C19_Witness ==
    \E t \in Tasks :
        /\ pc[t] = "reported"
        /\ store[t] = "ok"
        /\ text[t] = << SP >> \o ADDR_A \o << NBSP >>
        /\ Len(commits) = 2
        /\ commits[1][1] = ADDR_A
        /\ commits[2][1] = ADDR_A
        /\ Len(ledger) = 1

(***************************************************************************)
(* C20: initialising the ledger is idempotent and non-destructive: init_db *)
(* on a store that already holds the wallets table leaves every row as it  *)
(* was, so every address saved before a restart still has its row after    *)
(* it.                                                                     *)
(***************************************************************************)
C20_Kept == \A a \in Committed : rows_of(ledger, a) # {}

C20_RestartStep == restarts' # restarts => ledger' = ledger /\ seq' = seq

C20_InitIdempotent == []C20_Kept /\ [][C20_RestartStep]_vars

\* the process was started again over a table of two rows
C20_Witness ==
    /\ restarts > 0
    /\ Len(commits) = 2
    /\ Len(ledger) = 2
    /\ Quiescent

====
